---- MODULE Spec2Model ----
(***************************************************************************)
(* Local market registry and settlement tracking of pnp-protocol/skills.   *)
(*                                                                         *)
(* The model follows the TypeScript of SKILL.md: the "Agent Workflow After *)
(* Creating a Market" (lines 303-356), checkAndSettleDueMarkets (lines     *)
(* 385-445) and the settle script (getSettlementStatus / settleMarket,     *)
(* lines 878-957).  Agent instances are processes; every file system call  *)
(* and every awaited chain call is one step, so that runs of different     *)
(* instances interleave exactly where the code can be interleaved, and a   *)
(* crash can fall between any two of them.                                 *)
(*                                                                         *)
(* The script functions themselves (createMarket, buyTokens, sellTokens,   *)
(* getSettlementStatus, settleMarket, redeemWinnings, SKILL.md 528-1135)   *)
(* and the scripts' standalone entry points are modelled as calls of one   *)
(* caller: each call is one step that leaves its result in `out`.          *)
(* scripts/lifecycle.ts is a process of its own, one step per awaited call  *)
(* of main(), with its position and locals in `life`.                      *)
(***************************************************************************)
EXTENDS Integers, Sequences, FiniteSets, TLC

\* ---------------------------------------------------------------- bounds
MaxMarkets == 2      \* conditionIds the chain hands out: 1..MaxMarkets
MaxTicks   == 1      \* the clock advances at most MaxTicks hours
MaxCrashes == 1      \* process crashes in one behaviour
MaxAppends == 3      \* entries in the index when the registry update is run on its own

\* ------------------------------------------------------- program constants
HourSecs == 3600     \* createMarket: endTime = now + durationHours * 3600

Procs     == {"A", "B"}            \* two agent instances on one markets/ directory
Cids      == 1..MaxMarkets
Outcomes  == {"YES", "NO"}
Durations == {1}                   \* durationHours offered to createMarket
Questions == {"Q"}

\* ------------------------------------------------------------ file values
\* settlement block written at creation (SKILL.md line 334)
UnsettledSettlement == [isSettled |-> FALSE, winner |-> "null"]

NullRecord ==
  [conditionId |-> 0, question |-> "", endTime |-> 0, endTimeUnix |-> 0,
   collateral |-> "", initialLiquidity |-> "", createTxHash |-> 0,
   tradingRules |-> "", settlement |-> UnsettledSettlement]

\* markets/<conditionId>.json: absent, cut short by an interrupted write, or whole
MissingFile == [state |-> "missing", data |-> NullRecord]
PartialFile == [state |-> "partial", data |-> NullRecord]
WholeFile(r) == [state |-> "ok", data |-> r]

\* markets/registry.json, same three cases
MissingRegistry == [state |-> "missing", markets |-> << >>]
PartialRegistry == [state |-> "partial", markets |-> << >>]
WholeRegistry(ms) == [state |-> "ok", markets |-> ms]

VARIABLES
  now,           \* wall clock, seconds
  chain,         \* on-chain markets: cid -> [exists, endTime, isSettled, winner]
  nextCid,       \* next conditionId the chain assigns
  recordFile,    \* cid -> markets/<cid>.json
  registryFile,  \* markets/registry.json
  pc,            \* per process: position in the workflow it is running
  err,           \* per process: outcome of its last run
  image,         \* per process: registry.markets parsed in memory
  idx,           \* per process: position of the scan's for-loop (1-based)
  scanNow,       \* per process: `now` computed at the start of the scan
  rec,           \* per process: marketRecord / marketData in memory
  win,           \* per process: winner the agent decided for the current entry
  crashes,       \* crashes so far
  runCalls,      \* history: cids for which the process's current/last scan run invoked the external settle
  overlap,       \* history: the current/last scan runs of the two instances overlapped
  appended,      \* history: cids whose creation workflow completed its registry write
  marked,        \* history: cids some scan persisted as settled in the registry
  settledRecs,   \* history: cids whose record has been persisted as settled
  stale,         \* per process: at scan load, entries unsettled in the index but settled in the record
  orphans,       \* per process: at scan load, records without an index row
  out,           \* what the last call of a script function, or run of a script, came to
  life           \* the run of scripts/lifecycle.ts: position, locals, steps called, exit status

vars == << now, chain, nextCid, recordFile, registryFile, pc, err, image, idx,
           scanNow, rec, win, crashes, runCalls, overlap, appended, marked,
           settledRecs, stale, orphans, out, life >>

NoMarket == [exists |-> FALSE, endTime |-> 0, isSettled |-> FALSE, winner |-> "null"]

CreatePCs == {"cr_record", "cr_record_w", "cr_load", "cr_registry", "cr_registry_w"}
ScanPCs   == {"sc_loop", "sc_preflight", "sc_settle", "sc_settle_wait", "sc_record",
              "sc_record_w",
              "sc_registry", "sc_registry_w"}

Other(p) == CHOOSE q \in Procs : q # p

\* ----------------------------------------------------------- pure helpers
\* const marketRecord = {...}   (SKILL.md 320-335)
\* (endTime is the ISO text of endTimeUnix; createTxHash is result.hash, one
\* per created market)
NewMarketRecord(c, q, e) ==
  [conditionId |-> c, question |-> q, endTime |-> e, endTimeUnix |-> e,
   collateral |-> "USDC", initialLiquidity |-> "100", createTxHash |-> c,
   tradingRules |-> "rules", settlement |-> UnsettledSettlement]

\* the object pushed onto registry.markets   (SKILL.md 348-354)
NewRegistryEntry(r) ==
  [conditionId |-> r.conditionId, question |-> r.question,
   endTimeUnix |-> r.endTimeUnix, isSettled |-> FALSE, winner |-> "null"]

\* registry.markets.push(entry): no look-up of the conditionId precedes the push
PushEntry(ms, e) == Append(ms, e)

\* a settlement block that records the winner and forgets the flag
SettlementUpdate_FlagForgotten(r, w) ==
  [r EXCEPT !.settlement = [isSettled |-> FALSE, winner |-> w]]

\* a settled record written anew from what the index entry holds
SettlementUpdate_FromEntry(r, w) ==
  [NullRecord EXCEPT !.conditionId = r.conditionId, !.question = r.question,
                     !.endTimeUnix = r.endTimeUnix,
                     !.settlement = [isSettled |-> TRUE, winner |-> w]]

\* marketData.settlement = { isSettled: true, ..., winner }   (SKILL.md 430-435)
SettlementUpdate(r, w) ==
  [r EXCEPT !.settlement = [isSettled |-> TRUE, winner |-> w]]

\* a mark that is put on every entry of the index instead of the current one
MarkEntry_Every(ms, i, w) ==
  [j \in 1..Len(ms) |-> [ms[j] EXCEPT !.isSettled = TRUE, !.winner = w]]

\* entry.isSettled = true; entry.winner = winner   (SKILL.md 439-440)
MarkEntry(ms, i, w) ==
  [ms EXCEPT ![i] = [@ EXCEPT !.isSettled = TRUE, !.winner = w]]

\* a loop that has lost its `if (entry.isSettled) continue;`
SkipEntry_DueOnly(e, t) == e.endTimeUnix > t

\* a loop that leaves out the market ending at this very second
SkipEntry_StrictlyPast(e, t) == e.isSettled \/ e.endTimeUnix >= t

\* the two `continue` tests of the scan loop   (SKILL.md 395, 398)
SkipEntry(e, t) == e.isSettled \/ e.endTimeUnix > t

\* a canSettle that does not look at the clock
CanSettle_NoTimeTest(m, t) == ~m.isSettled

\* canSettle of getSettlementStatus   (SKILL.md 893)
CanSettle(m, t) == t >= m.endTime /\ ~m.isSettled

EntryCids(ms) == { ms[i].conditionId : i \in 1..Len(ms) }

\* a load without the existsSync test: reading a missing file throws as well
RegistryUnreadable_NoExistsCheck(file) == file.state # "ok"

\* JSON.parse of a registry file cut short by an interrupted write throws
RegistryUnreadable(file) == file.state = "partial"

\* existsSync(registryPath) ? JSON.parse(readFileSync(registryPath)) : { markets: [] }
LoadedMarkets(file) == IF file.state = "missing" THEN << >> ELSE file.markets

\* no script function has been called yet
NoOut == [fn |-> "none"]

\* scripts/lifecycle.ts has not been started
NoLife == [at |-> "off", conditionId |-> 0, canSettle |-> FALSE,
           steps |-> << >>, returned |-> << >>, exit |-> -1]

\* locals of a process that is not running anything
Reset(p) ==
  /\ image'   = [image EXCEPT ![p] = << >>]
  /\ idx'     = [idx EXCEPT ![p] = 0]
  /\ scanNow' = [scanNow EXCEPT ![p] = 0]
  /\ rec'     = [rec EXCEPT ![p] = NullRecord]
  /\ win'     = [win EXCEPT ![p] = "null"]
  /\ stale'   = [stale EXCEPT ![p] = {}]
  /\ orphans' = [orphans EXCEPT ![p] = {}]

\* a run ends by throwing: nothing after the throw is executed
Throw(p, e) ==
  /\ pc'  = [pc EXCEPT ![p] = "idle"]
  /\ err' = [err EXCEPT ![p] = e]
  /\ Reset(p)

Init ==
  /\ now = 0
  /\ chain = [c \in Cids |-> NoMarket]
  /\ nextCid = 1
  /\ recordFile = [c \in Cids |-> MissingFile]
  /\ registryFile = MissingRegistry
  /\ pc = [p \in Procs |-> "idle"]
  /\ err = [p \in Procs |-> "none"]
  /\ image = [p \in Procs |-> << >>]
  /\ idx = [p \in Procs |-> 0]
  /\ scanNow = [p \in Procs |-> 0]
  /\ rec = [p \in Procs |-> NullRecord]
  /\ win = [p \in Procs |-> "null"]
  /\ crashes = 0
  /\ runCalls = [p \in Procs |-> {}]
  /\ overlap = FALSE
  /\ appended = {}
  /\ marked = {}
  /\ settledRecs = {}
  /\ stale = [p \in Procs |-> {}]
  /\ orphans = [p \in Procs |-> {}]
  /\ out = NoOut
  /\ life = NoLife

\* =================================================== creation workflow
\* 1. const result = await createMarket(client, {...}); 2. build marketRecord.
\* The chain assigns a conditionId it has not assigned before; the call may fail.
CreateMarketCall(p) ==
  /\ pc[p] = "idle"
  /\ nextCid <= MaxMarkets
  /\ \E q \in Questions, d \in Durations, ok \in BOOLEAN :
       IF ok
       THEN LET c == nextCid
                e == now + d * HourSecs
            IN /\ chain' = [chain EXCEPT ![c] =
                              [exists |-> TRUE, endTime |-> e,
                               isSettled |-> FALSE, winner |-> "null"]]
               /\ nextCid' = nextCid + 1
               /\ rec' = [rec EXCEPT ![p] = NewMarketRecord(c, q, e)]
               /\ pc'  = [pc EXCEPT ![p] = "cr_record"]
               /\ err' = [err EXCEPT ![p] = "none"]
       ELSE /\ err' = [err EXCEPT ![p] = "ExternalCallFailure"]
            /\ UNCHANGED << chain, nextCid, rec, pc >>
  /\ UNCHANGED << now, recordFile, registryFile, image, idx, scanNow, win,
                  crashes, runCalls, overlap, appended, marked, settledRecs,
                  stale, orphans >>
  /\ UNCHANGED out
  /\ UNCHANGED life

\* 3. fs.writeFileSync(markets/<conditionId>.json): the file is opened with
\* truncation, ...
CreateRecordOpen(p) ==
  /\ pc[p] = "cr_record"
  /\ recordFile' = [recordFile EXCEPT ![rec[p].conditionId] = PartialFile]
  /\ pc' = [pc EXCEPT ![p] = "cr_record_w"]
  /\ UNCHANGED << now, chain, nextCid, registryFile, err, image, idx, scanNow,
                  rec, win, crashes, runCalls, overlap, appended, marked,
                  settledRecs, stale, orphans >>
  /\ UNCHANGED out
  /\ UNCHANGED life

\* ... then the JSON text is written
CreateRecordWrite(p) ==
  /\ pc[p] = "cr_record_w"
  /\ recordFile' = [recordFile EXCEPT ![rec[p].conditionId] = WholeFile(rec[p])]
  /\ pc' = [pc EXCEPT ![p] = "cr_load"]
  /\ UNCHANGED << now, chain, nextCid, registryFile, err, image, idx, scanNow,
                  rec, win, crashes, runCalls, overlap, appended, marked,
                  settledRecs, stale, orphans >>
  /\ UNCHANGED out
  /\ UNCHANGED life

\* 4. registry = existsSync(registryPath) ? JSON.parse(readFileSync(...)) : { markets: [] }
CreateLoadRegistry(p) ==
  /\ pc[p] = "cr_load"
  /\ IF RegistryUnreadable(registryFile)
     THEN /\ Throw(p, "ParseError")
     ELSE /\ image' = [image EXCEPT ![p] = LoadedMarkets(registryFile)]
          /\ pc' = [pc EXCEPT ![p] = "cr_registry"]
          /\ UNCHANGED << err, idx, scanNow, rec, win, stale, orphans >>
  /\ UNCHANGED << now, chain, nextCid, recordFile, registryFile, crashes,
                  runCalls, overlap, appended, marked, settledRecs >>
  /\ UNCHANGED out
  /\ UNCHANGED life

\* registry.markets.push({...}); fs.writeFileSync(registryPath, ...) opens the file
CreateRegistryOpen(p) ==
  /\ pc[p] = "cr_registry"
  /\ image' = [image EXCEPT ![p] = PushEntry(image[p], NewRegistryEntry(rec[p]))]
  /\ registryFile' = PartialRegistry
  /\ pc' = [pc EXCEPT ![p] = "cr_registry_w"]
  /\ UNCHANGED << now, chain, nextCid, recordFile, err, idx, scanNow, rec, win,
                  crashes, runCalls, overlap, appended, marked, settledRecs,
                  stale, orphans >>
  /\ UNCHANGED out
  /\ UNCHANGED life

\* ... and the JSON text of the whole registry is written; the workflow is over
CreateRegistryWrite(p) ==
  /\ pc[p] = "cr_registry_w"
  /\ registryFile' = WholeRegistry(image[p])
  /\ appended' = appended \cup {rec[p].conditionId}
  /\ pc' = [pc EXCEPT ![p] = "idle"]
  /\ err' = [err EXCEPT ![p] = "none"]
  /\ Reset(p)
  /\ UNCHANGED << now, chain, nextCid, recordFile, crashes, runCalls, overlap,
                  marked, settledRecs >>
  /\ UNCHANGED out
  /\ UNCHANGED life

\* =================================================== checkAndSettleDueMarkets
\* entries the loaded index shows unsettled although their record is settled
StaleEntries(ms) ==
  { c \in EntryCids(ms) :
      /\ recordFile[c].state = "ok"
      /\ recordFile[c].data.settlement.isSettled
      /\ \E i \in 1..Len(ms) : ms[i].conditionId = c /\ ~ms[i].isSettled }

\* records on disk without an index row, no creation workflow being about to add it
OrphanRecords(ms) ==
  { c \in Cids :
      /\ recordFile[c].state = "ok"
      /\ c \notin EntryCids(ms)
      /\ \A q \in Procs : ~(pc[q] \in CreatePCs /\ rec[q].conditionId = c) }

\* if (!fs.existsSync(registryPath)) return;
\* registry = JSON.parse(fs.readFileSync(...)); now = floor(Date.now() / 1000)
ScanLoad(p) ==
  /\ pc[p] = "idle"
  /\ CASE registryFile.state = "missing" ->
            /\ err' = [err EXCEPT ![p] = "none"]
            /\ UNCHANGED << pc, image, idx, scanNow, rec, win, stale, orphans,
                            runCalls, overlap >>
       [] RegistryUnreadable(registryFile) ->
            /\ err' = [err EXCEPT ![p] = "ParseError"]
            /\ UNCHANGED << pc, image, idx, scanNow, rec, win, stale, orphans,
                            runCalls, overlap >>
       [] OTHER ->
            /\ image'   = [image EXCEPT ![p] = registryFile.markets]
            /\ scanNow' = [scanNow EXCEPT ![p] = now]
            /\ idx'     = [idx EXCEPT ![p] = 1]
            /\ stale'   = [stale EXCEPT ![p] = StaleEntries(registryFile.markets)]
            /\ orphans' = [orphans EXCEPT ![p] = OrphanRecords(registryFile.markets)]
            /\ runCalls' = [runCalls EXCEPT ![p] = {}]
            /\ overlap' = (pc[Other(p)] \in ScanPCs)
            /\ pc'  = [pc EXCEPT ![p] = "sc_loop"]
            /\ err' = [err EXCEPT ![p] = "none"]
            /\ UNCHANGED << rec, win >>
  /\ UNCHANGED << now, chain, nextCid, recordFile, registryFile, crashes,
                  appended, marked, settledRecs >>
  /\ UNCHANGED out
  /\ UNCHANGED life

\* one iteration of `for (const entry of registry.markets)` up to the agent's
\* decision: the two `continue`s, else marketData = JSON.parse(readFileSync(marketPath))
\* and the winner the agent determines
ScanLoop(p) ==
  /\ pc[p] = "sc_loop"
  /\ IF idx[p] > Len(image[p])
     THEN /\ pc' = [pc EXCEPT ![p] = "sc_registry"]
          /\ UNCHANGED << err, image, idx, scanNow, rec, win, stale, orphans >>
     ELSE LET entry == image[p][idx[p]]
              file  == recordFile[entry.conditionId]
          IN IF SkipEntry(entry, scanNow[p])
             THEN /\ idx' = [idx EXCEPT ![p] = @ + 1]
                  /\ UNCHANGED << pc, err, image, scanNow, rec, win, stale, orphans >>
             ELSE CASE file.state = "missing" -> Throw(p, "NotFound")
                    [] file.state = "partial" -> Throw(p, "ParseError")
                    [] OTHER ->
                         /\ rec' = [rec EXCEPT ![p] = file.data]
                         /\ \E w \in Outcomes : win' = [win EXCEPT ![p] = w]
                         /\ pc' = [pc EXCEPT ![p] = "sc_preflight"]
                         /\ UNCHANGED << err, image, idx, scanNow, stale, orphans >>
  /\ UNCHANGED << now, chain, nextCid, recordFile, registryFile, crashes,
                  runCalls, overlap, appended, marked, settledRecs >>
  /\ UNCHANGED out
  /\ UNCHANGED life

\* settleMarket, pre-flight: status = await getSettlementStatus(client, conditionId);
\* throws when status.isSettled, throws when !status.canSettle
ScanPreflight(p) ==
  /\ pc[p] = "sc_preflight"
  /\ LET m == chain[image[p][idx[p]].conditionId]
     IN IF m.isSettled
        THEN Throw(p, "AlreadySettled")
        ELSE IF ~CanSettle(m, now)
        THEN Throw(p, "CannotSettleYet")
        ELSE /\ pc' = [pc EXCEPT ![p] = "sc_settle"]
             /\ UNCHANGED << err, image, idx, scanNow, rec, win, stale, orphans >>
  /\ UNCHANGED << now, chain, nextCid, recordFile, registryFile, crashes,
                  runCalls, overlap, appended, marked, settledRecs >>
  /\ UNCHANGED out
  /\ UNCHANGED life

\* winningTokenId = await getTokenId(...); client.market.settleMarket(conditionId,
\* winningTokenId) is invoked: the transaction is sent and the run awaits it
ScanSettleInvoke(p) ==
  /\ pc[p] = "sc_settle"
  /\ runCalls' = [runCalls EXCEPT ![p] = @ \cup {image[p][idx[p]].conditionId}]
  /\ pc' = [pc EXCEPT ![p] = "sc_settle_wait"]
  /\ UNCHANGED << now, chain, nextCid, recordFile, registryFile, err, image, idx,
                  scanNow, rec, win, crashes, overlap, appended, marked,
                  settledRecs, stale, orphans >>
  /\ UNCHANGED out
  /\ UNCHANGED life

\* the awaited call returns: the chain has settled the market with the outcome
\* passed, or the call has failed and settleMarket throws
ScanSettleResult(p) ==
  /\ pc[p] = "sc_settle_wait"
  /\ LET c == image[p][idx[p]].conditionId
     IN \E ok \in BOOLEAN :
          IF ok
          THEN /\ chain' = [chain EXCEPT ![c] =
                              [@ EXCEPT !.isSettled = TRUE, !.winner = win[p]]]
               /\ pc' = [pc EXCEPT ![p] = "sc_record"]
               /\ UNCHANGED << err, image, idx, scanNow, rec, win, stale, orphans >>
          ELSE /\ Throw(p, "ExternalCallFailure")
               /\ UNCHANGED chain
  /\ UNCHANGED << now, nextCid, recordFile, registryFile, crashes, runCalls,
                  overlap, appended, marked, settledRecs >>
  /\ UNCHANGED out
  /\ UNCHANGED life

\* fs.writeFileSync(marketPath, ...) opens the record file with truncation, ...
ScanRecordOpen(p) ==
  /\ pc[p] = "sc_record"
  /\ recordFile' = [recordFile EXCEPT ![image[p][idx[p]].conditionId] = PartialFile]
  /\ pc' = [pc EXCEPT ![p] = "sc_record_w"]
  /\ UNCHANGED << now, chain, nextCid, registryFile, err, image, idx, scanNow,
                  rec, win, crashes, runCalls, overlap, appended, marked,
                  settledRecs, stale, orphans >>
  /\ UNCHANGED out
  /\ UNCHANGED life

\* ... writes marketData with the new settlement block, then marks the entry
\* of the in-memory registry and goes to the next entry
ScanRecordWrite(p) ==
  /\ pc[p] = "sc_record_w"
  /\ LET c == image[p][idx[p]].conditionId
     IN /\ recordFile' = [recordFile EXCEPT ![c] =
                            WholeFile(SettlementUpdate(rec[p], win[p]))]
        /\ settledRecs' = settledRecs \cup
                            {d \in {c} : SettlementUpdate(rec[p], win[p]).settlement.isSettled}
  /\ image' = [image EXCEPT ![p] = MarkEntry(image[p], idx[p], win[p])]
  /\ idx' = [idx EXCEPT ![p] = @ + 1]
  /\ pc' = [pc EXCEPT ![p] = "sc_loop"]
  /\ UNCHANGED << now, chain, nextCid, registryFile, err, scanNow, rec, win,
                  crashes, runCalls, overlap, appended, marked, stale, orphans >>
  /\ UNCHANGED out
  /\ UNCHANGED life

\* after the loop: fs.writeFileSync(registryPath, ...) opens the registry, ...
ScanRegistryOpen(p) ==
  /\ pc[p] = "sc_registry"
  /\ registryFile' = PartialRegistry
  /\ pc' = [pc EXCEPT ![p] = "sc_registry_w"]
  /\ UNCHANGED << now, chain, nextCid, recordFile, err, image, idx, scanNow,
                  rec, win, crashes, runCalls, overlap, appended, marked,
                  settledRecs, stale, orphans >>
  /\ UNCHANGED out
  /\ UNCHANGED life

\* ... and writes the in-memory registry over it; the scan is over
ScanRegistryWrite(p) ==
  /\ pc[p] = "sc_registry_w"
  /\ registryFile' = WholeRegistry(image[p])
  /\ marked' = marked \cup runCalls[p]
  /\ pc' = [pc EXCEPT ![p] = "idle"]
  /\ err' = [err EXCEPT ![p] = "none"]
  /\ Reset(p)
  /\ UNCHANGED << now, chain, nextCid, recordFile, crashes, runCalls, overlap,
                  appended, settledRecs >>
  /\ UNCHANGED out
  /\ UNCHANGED life

\* =================================================== environment
\* the process dies between two steps; what it held in memory is gone
Crash(p) ==
  /\ pc[p] # "idle"
  /\ crashes < MaxCrashes
  /\ crashes' = crashes + 1
  /\ pc'  = [pc EXCEPT ![p] = "idle"]
  /\ err' = [err EXCEPT ![p] = "crashed"]
  /\ Reset(p)
  /\ UNCHANGED << now, chain, nextCid, recordFile, registryFile, runCalls,
                  overlap, appended, marked, settledRecs >>
  /\ UNCHANGED out
  /\ UNCHANGED life

\* time passes
Tick ==
  /\ now < MaxTicks * HourSecs
  /\ now' = now + HourSecs
  /\ UNCHANGED << chain, nextCid, recordFile, registryFile, pc, err, image, idx,
                  scanNow, rec, win, crashes, runCalls, overlap, appended,
                  marked, settledRecs, stale, orphans >>
  /\ UNCHANGED out
  /\ UNCHANGED life

\* every step an agent instance can take
Step(p) ==
  \/ CreateMarketCall(p)
  \/ CreateRecordOpen(p)
  \/ CreateRecordWrite(p)
  \/ CreateLoadRegistry(p)
  \/ CreateRegistryOpen(p)
  \/ CreateRegistryWrite(p)
  \/ ScanLoad(p)
  \/ ScanLoop(p)
  \/ ScanPreflight(p)
  \/ ScanSettleInvoke(p)
  \/ ScanSettleResult(p)
  \/ ScanRecordOpen(p)
  \/ ScanRecordWrite(p)
  \/ ScanRegistryOpen(p)
  \/ ScanRegistryWrite(p)
  \/ Crash(p)

\* two agent instances share the markets/ directory
Next == (\E p \in Procs : Step(p)) \/ Tick

Spec == Init /\ [][Next]_vars

\* one agent instance, restarted after a crash (the single-process model)
SeqProcs == {"A"}

NextSeq == (\E p \in SeqProcs : Step(p)) \/ Tick

SpecSeq == Init /\ [][NextSeq]_vars

\* =================================================== properties
\* the process p takes a step of its own that is not a crash
Moves(p) == crashes' = crashes /\ << pc[p], idx[p], image[p], err[p] >> # << pc'[p], idx'[p], image'[p], err'[p] >>

\* the scan run of p ends with this step, by returning or by throwing
RunEnds(p) == pc[p] \in ScanPCs /\ pc'[p] = "idle" /\ crashes' = crashes

\* the entry of conditionId c in a registry file is settled with winner w
SettledAs(file, c, w) ==
  /\ file.state = "ok"
  /\ \E i \in 1..Len(file.markets) : file.markets[i].conditionId = c
  /\ \A i \in 1..Len(file.markets) :
       file.markets[i].conditionId = c =>
         file.markets[i].isSettled /\ file.markets[i].winner = w

\* C1: when the scan runs of two instances overlap, no conditionId gets the
\* external settleMarket call from both of them.
C1_SettleInvokedAtMostOnce ==
  overlap => runCalls["A"] \cap runCalls["B"] = {}

\* C2: a scan that loads an entry unsettled in the index whose record is already
\* settled ends with that entry persisted as settled with the record's winner,
\* and has not invoked the external settlement call for it.
C2_StaleIndexRepaired ==
  [][ \A p \in Procs : \A c \in stale[p] :
        ( /\ RunEnds(p)
          /\ \/ pc[p] = "sc_registry_w"
             \/ /\ idx[p] <= Len(image[p])
                /\ image[p][idx[p]].conditionId = c )
        => /\ SettledAs(registryFile', c, recordFile[c].data.settlement.winner)
           /\ c \notin runCalls'[p] ]_vars

\* C3: whenever no scan is in progress and no run was cut by a crash, every
\* index entry has a record file and agrees with it on isSettled and winner.
C3_IndexAgreesWithRecords ==
  ( /\ \A p \in Procs : pc[p] \notin ScanPCs
    /\ crashes = 0
    /\ registryFile.state = "ok" )
  => \A i \in 1..Len(registryFile.markets) :
       LET e == registryFile.markets[i]
           f == recordFile[e.conditionId]
       IN /\ f.state = "ok"
          /\ f.data.settlement.isSettled = e.isSettled
          /\ f.data.settlement.winner = e.winner

\* C4: a record that has once been persisted as settled is settled whenever it
\* can be read, and in every readable record winner is null exactly when
\* isSettled is false.
C4_SettlementMonotone ==
  \A c \in Cids :
    recordFile[c].state = "ok" =>
      LET s == recordFile[c].data.settlement
      IN /\ c \in settledRecs => s.isSettled
         /\ (s.winner = "null") <=> ~s.isSettled

\* a settled record read back after a crash and a restart, a scan going past it
C4_Witness ==
  /\ crashes > 0
  /\ \E c \in settledRecs : recordFile[c].state = "ok"
  /\ \E p \in Procs : pc[p] = "sc_loop" /\ idx[p] > 1

\* the scan's step at an entry that the loaded index shows settled
AtSettledEntry(p) ==
  /\ pc[p] = "sc_loop"
  /\ idx[p] <= Len(image[p])
  /\ image[p][idx[p]].isSettled

C6_NoIndexUpdateLost ==
  [][ \A p \in Procs :
        /\ (pc[p] = "sc_registry_w" /\ RunEnds(p))
             => appended \subseteq EntryCids(registryFile'.markets)
        /\ (pc[p] = "cr_registry_w" /\ Moves(p))
             => \A c \in marked : \A i \in 1..Len(registryFile'.markets) :
                  registryFile'.markets[i].conditionId = c
                    => registryFile'.markets[i].isSettled ]_vars

\* C7: when no process is in the middle of writing the registry, the registry
\* file is whole (or absent): a crash has not left a partially written index.
C7_IndexNeverPartial ==
  (\A p \in Procs : pc[p] \notin {"cr_registry_w", "sc_registry_w"})
  => registryFile.state # "partial"

\* C8: a scan that completes has appended to the persisted index every record
\* that had no index row when the scan started.
C8_OrphanRecordAppended ==
  [][ \A p \in Procs :
        /\ (pc[p] = "sc_registry_w" /\ RunEnds(p))
             => ( /\ registryFile'.state = "ok"
                  /\ orphans[p] \subseteq EntryCids(registryFile'.markets) )
        /\ (registryFile.state = "missing" /\ ScanLoad(p))
             => ( /\ OrphanRecords(<< >>) # {} => registryFile'.state = "ok"
                  /\ OrphanRecords(<< >>) \subseteq EntryCids(registryFile'.markets) ) ]_vars

\* C10: with no registry file, the creation workflow loads the empty index and
\* the scan returns, neither failing; the entry pushed onto the empty index is
\* the whole persisted index, and a load of a whole registry yields its content.
C10_MissingRegistryIsEmpty ==
  [][ \A p \in Procs :
        /\ (pc[p] = "cr_load" /\ registryFile.state = "missing" /\ Moves(p))
             => (pc'[p] = "cr_registry" /\ image'[p] = << >> /\ err'[p] = err[p])
        /\ (registryFile.state = "missing" /\ ScanLoad(p))
             => ( /\ pc'[p] = "idle" /\ err'[p] = "none"
                  /\ runCalls' = runCalls /\ chain' = chain
                  /\ recordFile' = recordFile /\ registryFile' = registryFile )
        /\ (pc[p] = "cr_registry" /\ image[p] = << >> /\ Moves(p))
             => image'[p] = << NewRegistryEntry(rec[p]) >>
        /\ (pc[p] = "cr_registry_w" /\ Len(image[p]) = 1 /\ Moves(p))
             => registryFile' = WholeRegistry(<< NewRegistryEntry(rec[p]) >>)
        /\ (pc[p] = "cr_load" /\ registryFile.state = "ok" /\ Moves(p))
             => image'[p] = registryFile.markets
        /\ (registryFile.state = "ok" /\ ScanLoad(p))
             => image'[p] = registryFile.markets ]_vars

\* the first entry was appended to the index loaded from no file, and a scan
\* has loaded exactly that entry
C10_Witness ==
  /\ appended = {1}
  /\ registryFile = WholeRegistry(<< NewRegistryEntry(recordFile[1].data) >>)
  /\ \E p \in Procs : pc[p] = "sc_loop" /\ idx[p] = 1 /\ image[p] = registryFile.markets

\* the scan's step at an entry of the loaded index
AtEntry(p) == pc[p] = "sc_loop" /\ idx[p] <= Len(image[p])

C12_EachDueSettledOnceInOrder ==
  [][ \A p \in Procs :
        /\ (pc[p] = "sc_settle" /\ Moves(p) /\ crashes = 0)
             => /\ image[p][idx[p]].conditionId \notin runCalls[p]
                /\ \A j \in 1..(idx[p] - 1) :
                     image[p][j].endTimeUnix <= scanNow[p] => image[p][j].isSettled
        /\ (RunEnds(p) /\ crashes = 0 /\ err'[p] # "ExternalCallFailure")
             => /\ registryFile'.state = "ok"
                /\ \A i \in 1..Len(registryFile'.markets) :
                     registryFile'.markets[i].endTimeUnix <= scanNow[p]
                       => registryFile'.markets[i].isSettled ]_vars

\* C13: no external createMarket call is issued while the persisted index holds
\* an unsettled entry whose endTimeUnix is at or before now.
C13_ScanBeforeCreate ==
  [][ \A p \in Procs :
        CreateMarketCall(p)
        => \A i \in 1..Len(registryFile.markets) :
             ~( /\ ~registryFile.markets[i].isSettled
                /\ registryFile.markets[i].endTimeUnix <= now ) ]_vars

\* the fields of a record that are set at creation
CreationFields(r) == [r EXCEPT !.settlement = UnsettledSettlement]

\* C19: every readable market record holds, outside its settlement block, what
\* was written at creation (conditionId, question, endTime, collateral,
\* initialLiquidity, createTxHash, tradingRules), before and after the
\* settlement update; and a record file, once there, is never removed.
C19_OnlySettlementChanges ==
  [][ \A c \in Cids :
        /\ recordFile'[c].state = "ok"
             => \E q \in Questions :
                  CreationFields(recordFile'[c].data)
                    = NewMarketRecord(c, q, chain'[c].endTime)
        /\ recordFile[c].state # "missing" => recordFile'[c].state # "missing" ]_vars

\* a record has been rewritten by the settlement update, and a later creation
\* and a later scan have run to their end beside it
C19_Witness ==
  /\ \E c \in settledRecs :
       /\ recordFile[c].state = "ok"
       /\ recordFile[c].data.settlement.isSettled
       /\ recordFile[c].data.createTxHash = c
  /\ marked # {}
  /\ \E c \in appended : ~chain[c].isSettled /\ recordFile[c].state = "ok"

\* C21: in every state, an entry the persisted index shows settled has a
\* readable record that is settled, and a record that is settled belongs to a
\* market the external settlement call has settled on the chain.
C21_CallThenRecordThenIndex ==
  /\ \A i \in 1..Len(registryFile.markets) :
       registryFile.markets[i].isSettled
         => LET f == recordFile[registryFile.markets[i].conditionId]
            IN f.state = "ok" /\ f.data.settlement.isSettled
  /\ \A c \in Cids :
       (recordFile[c].state = "ok" /\ recordFile[c].data.settlement.isSettled)
         => chain[c].isSettled

\* a run was cut by a crash, and a run after it has settled a market on the
\* chain, in its record and in the persisted index
C21_Witness ==
  /\ crashes > 0
  /\ \E i \in 1..Len(registryFile.markets) :
       LET c == registryFile.markets[i].conditionId
       IN /\ registryFile.markets[i].isSettled
          /\ recordFile[c].state = "ok" /\ recordFile[c].data.settlement.isSettled
          /\ chain[c].isSettled /\ c \in marked

\* =================================================== the registry update alone
\* step 4 of the creation workflow entered with a createMarket result in hand,
\* whatever conditionId that result carries
UpdateRegistryWith(p) ==
  /\ pc[p] = "idle"
  /\ Len(registryFile.markets) < MaxAppends
  /\ \E c \in Cids, q \in Questions, d \in Durations :
       rec' = [rec EXCEPT ![p] = NewMarketRecord(c, q, now + d * HourSecs)]
  /\ pc' = [pc EXCEPT ![p] = "cr_load"]
  /\ err' = [err EXCEPT ![p] = "none"]
  /\ UNCHANGED << now, chain, nextCid, recordFile, registryFile, image, idx,
                  scanNow, win, crashes, runCalls, overlap, appended, marked,
                  settledRecs, stale, orphans >>
  /\ UNCHANGED out
  /\ UNCHANGED life

NextAppend ==
  \/ \E p \in SeqProcs :
       \/ UpdateRegistryWith(p)
       \/ CreateLoadRegistry(p)
       \/ CreateRegistryOpen(p)
       \/ CreateRegistryWrite(p)
  \/ Tick

SpecAppend == Init /\ [][NextAppend]_vars

\* C9: the registry update for a conditionId that the loaded index already
\* holds fails with DuplicateConditionId and leaves the persisted index as it was.
C9_DuplicateAppendRejected ==
  [][ \A p \in Procs :
        ( /\ pc[p] = "cr_registry"
          /\ rec[p].conditionId \in EntryCids(image[p])
          /\ Moves(p) )
        => /\ pc'[p] = "idle" /\ err'[p] = "DuplicateConditionId"
           /\ registryFile' = registryFile ]_vars

\* =================================================== scripts: create-market.ts
\* A symbol or an address is the sequence of its characters, so that
\* toUpperCase and startsWith work on it as they do on the JavaScript string.
LowerCase == << "a", "b", "c", "d", "e", "f", "g", "h", "i", "j", "k", "l", "m",
                "n", "o", "p", "q", "r", "s", "t", "u", "v", "w", "x", "y", "z" >>
UpperCase == << "A", "B", "C", "D", "E", "F", "G", "H", "I", "J", "K", "L", "M",
                "N", "O", "P", "Q", "R", "S", "T", "U", "V", "W", "X", "Y", "Z" >>

UpperChar(ch) ==
  IF \E i \in 1..Len(LowerCase) : LowerCase[i] = ch
  THEN UpperCase[CHOOSE i \in 1..Len(LowerCase) : LowerCase[i] = ch]
  ELSE ch

\* String.prototype.toUpperCase
ToUpperCase(str) == [i \in 1..Len(str) |-> UpperChar(str[i])]

\* String.prototype.startsWith
StartsWith(str, prefix) ==
  Len(str) >= Len(prefix) /\ SubSeq(str, 1, Len(prefix)) = prefix

USDC  == << "U", "S", "D", "C" >>
WETH  == << "W", "E", "T", "H" >>
cbETH == << "c", "b", "E", "T", "H" >>

\* export const TOKENS = { USDC: {...}, WETH: {...}, cbETH: {...} }; the
\* addresses are cut to their first characters
TOKENS ==
  [k \in {USDC, WETH, cbETH} |->
     CASE k = USDC -> [address |-> << "0", "x", "8", "3", "3" >>, decimals |-> 6]
       [] k = WETH -> [address |-> << "0", "x", "4", "2", "0" >>, decimals |-> 18]
       [] OTHER    -> [address |-> << "0", "x", "2", "A", "e" >>, decimals |-> 18]]

\* the symbols the documentation offers for `collateral`
DocumentedSymbols == {USDC, WETH, cbETH}

\* values handed to createMarket as `collateral`
CollateralArgs ==
  DocumentedSymbols \cup
  { << "u", "s", "d", "c" >>, << "D", "O", "G", "E" >>, << "0", "x", "A", "b" >> }

\* parseFloat on the amount strings the model uses
ParseFloat(str) ==
  CASE str = "100" -> [nan |-> FALSE, val |-> 100]
    [] str = "10"  -> [nan |-> FALSE, val |-> 10]
    [] str = "2"   -> [nan |-> FALSE, val |-> 2]
    [] str = "0"   -> [nan |-> FALSE, val |-> 0]
    [] str = "-5"  -> [nan |-> FALSE, val |-> -5]
    [] OTHER       -> [nan |-> TRUE, val |-> 0]       \* "", "abc"

\* a test that has lost its `parseFloat(amount) <= 0` half
NotPositive_EmptyOnly(str) == str = ""

\* `!amount || parseFloat(amount) <= 0`: NaN <= 0 is false
NotPositive(str) == str = "" \/ (~ParseFloat(str).nan /\ ParseFloat(str).val <= 0)

\* ethers.parseUnits throws on a string that is not a decimal number
ParseUnitsThrows(str) == ParseFloat(str).nan

AmountArgs   == {"", "0", "-5", "100", "abc"}
QuestionArgs == {""} \cup Questions          \* "" is a missing question
DurationArgs == {-1, 0} \cup Durations       \* 0 also stands for undefined / NaN

\* the key createMarket looks up in TOKENS
TokenKey(collateral) == ToUpperCase(collateral)

\* createMarket up to the external call: the first error thrown, or the
\* collateral address and the decimals the call is made with
CreateMarketCheck(question, durationHours, liquidity, collateral) ==
  LET key == TokenKey(collateral)
      NoCall(e) == [err |-> e, collateralToken |-> << >>, decimals |-> 0]
  IN IF question = "" THEN NoCall("question is required")
     ELSE IF durationHours = 0 \/ durationHours <= 0
     THEN NoCall("durationHours must be positive")
     ELSE IF NotPositive(liquidity) THEN NoCall("liquidity must be positive")
     ELSE IF key \notin DOMAIN TOKENS /\ ~StartsWith(collateral, << "0", "x" >>)
     THEN NoCall("Unknown token")
     ELSE IF ParseUnitsThrows(liquidity) THEN NoCall("invalid decimal string")
     ELSE IF key \in DOMAIN TOKENS
     THEN [err |-> "none", collateralToken |-> TOKENS[key].address,
           decimals |-> TOKENS[key].decimals]
     ELSE [err |-> "none", collateralToken |-> collateral, decimals |-> 18]

\* the errors of createMarket's own validation
ValidationErrors ==
  {"question is required", "durationHours must be positive",
   "liquidity must be positive", "Unknown token"}

\* await createMarket(client, params), with params drawn from the given sets
CallCreateMarket(questions, durations, liquidities, collaterals) ==
  /\ \E q \in questions, d \in durations, l \in liquidities, col \in collaterals :
       LET chk == CreateMarketCheck(q, d, l, col)
           res == [fn |-> "createMarket", question |-> q, durationHours |-> d,
                   liquidity |-> l, collateral |-> col,
                   collateralToken |-> chk.collateralToken,
                   decimals |-> chk.decimals]
       IN IF chk.err # "none"
          THEN /\ out' = res @@ [err |-> chk.err, ext |-> {}, conditionId |-> 0]
               /\ UNCHANGED << chain, nextCid >>
          ELSE \/ /\ nextCid <= MaxMarkets
                  /\ chain' = [chain EXCEPT ![nextCid] =
                                 [exists |-> TRUE, endTime |-> now + d * HourSecs,
                                  isSettled |-> FALSE, winner |-> "null"]]
                  /\ nextCid' = nextCid + 1
                  /\ out' = res @@ [err |-> "none", ext |-> {"market.createMarket"},
                                    conditionId |-> nextCid]
               \/ /\ out' = res @@ [err |-> "ExternalCallFailure",
                                    ext |-> {"market.createMarket"}, conditionId |-> 0]
                  /\ UNCHANGED << chain, nextCid >>
  /\ UNCHANGED << now, recordFile, registryFile, pc, err, image, idx, scanNow,
                  rec, win, crashes, runCalls, overlap, appended, marked,
                  settledRecs, stale, orphans >>
  /\ UNCHANGED life

\* createMarket on its own, called with every kind of parameter
NextCreate ==
  \/ CallCreateMarket(QuestionArgs, DurationArgs, AmountArgs, CollateralArgs)
  \/ Tick

SpecCreate == Init /\ [][NextCreate]_vars

\* this step is a call of the script function f
Called(f) == now' = now /\ out'.fn = f

\* a collateral that is no documented symbol, in whatever letter case, and no
\* 0x-style address
UnknownCollateral(collateral) ==
  /\ \A k \in DocumentedSymbols : ToUpperCase(collateral) # ToUpperCase(k)
  /\ ~StartsWith(collateral, << "0", "x" >>)

\* C15: a createMarket call with a missing question, a non-positive duration,
\* a non-positive liquidity, or a collateral that is neither a known symbol nor
\* a 0x-style address fails with a validation error, and no external
\* createMarket call is made: the chain is as before.
C15_InvalidParamsRejected ==
  [][ ( /\ Called("createMarket")
        /\ \/ out'.question = ""
           \/ out'.durationHours <= 0
           \/ out'.liquidity \in {"", "0", "-5"}
           \/ UnknownCollateral(out'.collateral) )
      => /\ out'.err \in ValidationErrors
         /\ out'.ext = {}
         /\ chain' = chain /\ nextCid' = nextCid ]_vars

\* after a market was created, a call with a collateral that is neither a
\* symbol nor an address, all else being valid, has been rejected
C15_Witness ==
  /\ nextCid > 1
  /\ out.fn = "createMarket"
  /\ out.question # "" /\ out.durationHours > 0 /\ out.liquidity = "100"
  /\ UnknownCollateral(out.collateral)
  /\ out.err = "Unknown token"

\* C16: a createMarket call whose other parameters are valid and whose
\* collateral is one of the documented symbols USDC, WETH, cbETH does not fail
\* with the unknown-token error and goes out with the address and the decimals
\* of the known-token table.
C16_DocumentedSymbolsAccepted ==
  [][ ( /\ Called("createMarket")
        /\ out'.question # "" /\ out'.durationHours > 0 /\ out'.liquidity = "100"
        /\ out'.collateral \in DocumentedSymbols )
      => /\ out'.err # "Unknown token"
         /\ out'.ext = {"market.createMarket"}
         /\ out'.collateralToken = TOKENS[out'.collateral].address
         /\ out'.decimals = TOKENS[out'.collateral].decimals ]_vars

\* =================================================== scripts: settle.ts, trade.ts, redeem.ts
NoCid == 0                               \* a conditionId that is missing or empty
OutcomeArgs == Outcomes \cup {"MAYBE"}   \* values handed over as `outcome`

\* conditionIds a script function is called with: none, or that of a market
\* the chain knows
CidArgs == {NoCid} \cup {c \in Cids : chain[c].exists}

\* what getMarketInfo / isResolved / getWinningToken report for a conditionId
MarketOf(c) == IF c \in Cids THEN chain[c] ELSE NoMarket

\* a status whose winner is worked out for an unsettled market as well
SettlementStatus_WinnerAlways(m, t) ==
  [endTime   |-> m.endTime,
   isSettled |-> m.isSettled,
   canSettle |-> CanSettle(m, t),
   winner    |-> IF m.winner = "YES" THEN "YES" ELSE "NO",
   timeLeftHours   |-> IF ~m.isSettled /\ t < m.endTime
                       THEN (m.endTime - t) \div HourSecs ELSE -1,
   timeLeftMinutes |-> IF ~m.isSettled /\ t < m.endTime
                       THEN ((m.endTime - t) % HourSecs) \div 60 ELSE -1]

\* getSettlementStatus: the status object (undefined fields are "undefined", -1)
SettlementStatus(m, t) ==
  [endTime   |-> m.endTime,
   isSettled |-> m.isSettled,
   canSettle |-> CanSettle(m, t),
   winner    |-> IF m.isSettled
                 THEN (IF m.winner = "YES" THEN "YES" ELSE "NO")
                 ELSE "undefined",
   timeLeftHours   |-> IF ~m.isSettled /\ t < m.endTime
                       THEN (m.endTime - t) \div HourSecs ELSE -1,
   timeLeftMinutes |-> IF ~m.isSettled /\ t < m.endTime
                       THEN ((m.endTime - t) % HourSecs) \div 60 ELSE -1]

\* settleMarket up to the external call: the error thrown, or "none"
SettleCheck(c, outcome, t) ==
  IF c = NoCid THEN "conditionId is required"
  ELSE IF outcome \notin {"YES", "NO"} THEN "outcome must be YES or NO"
  ELSE LET status == SettlementStatus(MarketOf(c), t)
       IN IF status.isSettled THEN "Market is already settled"
          ELSE IF ~status.canSettle THEN "Cannot settle yet"
          ELSE "none"

\* await settleMarket(client, { conditionId, outcome })
CallSettleMarket ==
  /\ \E c \in CidArgs, o \in OutcomeArgs :
       LET e   == SettleCheck(c, o, now)
           res == [fn |-> "settleMarket", conditionId |-> c, outcome |-> o]
           st  == SettlementStatus(MarketOf(c), now)
       IN IF e = "Cannot settle yet"
          THEN \* `Cannot settle yet. Trading ends in ${timeLeftHours}h ${timeLeftMinutes}m`
               /\ out' = res @@ [err |-> e, ext |-> {},
                                 timeLeftHours |-> st.timeLeftHours,
                                 timeLeftMinutes |-> st.timeLeftMinutes]
               /\ UNCHANGED chain
          ELSE IF e # "none"
          THEN /\ out' = res @@ [err |-> e, ext |-> {}]
               /\ UNCHANGED chain
          ELSE \/ /\ chain' = [chain EXCEPT ![c] =
                                 [@ EXCEPT !.isSettled = TRUE, !.winner = o]]
                  /\ out' = res @@ [err |-> "none", ext |-> {"market.settleMarket"}]
               \/ /\ out' = res @@ [err |-> "ExternalCallFailure",
                                    ext |-> {"market.settleMarket"}]
                  /\ UNCHANGED chain
  /\ UNCHANGED << now, nextCid, recordFile, registryFile, pc, err, image, idx,
                  scanNow, rec, win, crashes, runCalls, overlap, appended,
                  marked, settledRecs, stale, orphans >>
  /\ UNCHANGED life

\* await getSettlementStatus(client, conditionId)
CallGetSettlementStatus ==
  /\ \E c \in CidArgs :
       IF c = NoCid
       THEN out' = [fn |-> "getSettlementStatus", conditionId |-> c,
                    err |-> "conditionId is required", ext |-> {}]
       ELSE out' = [fn |-> "getSettlementStatus", conditionId |-> c,
                    err |-> "none", ext |-> {},
                    status |-> SettlementStatus(MarketOf(c), now)]
  /\ UNCHANGED << now, chain, nextCid, recordFile, registryFile, pc, err, image,
                  idx, scanNow, rec, win, crashes, runCalls, overlap, appended,
                  marked, settledRecs, stale, orphans >>
  /\ UNCHANGED life

\* a pre-flight that has lost its test of the end of trading
TradeClosed_SettledOnly(m, t) ==
  IF m.isSettled THEN "Market is already settled" ELSE "none"

\* a pre-flight that still lets a trade through at the very second of the end
TradeClosed_StrictlyAfter(m, t) ==
  IF t > m.endTime THEN "Market trading period has ended"
  ELSE IF m.isSettled THEN "Market is already settled"
  ELSE "none"

\* the pre-flight of buyTokens and sellTokens: the error thrown, or "none"
TradeClosed(m, t) ==
  IF t >= m.endTime THEN "Market trading period has ended"
  ELSE IF m.isSettled THEN "Market is already settled"
  ELSE "none"

\* buyTokens / sellTokens up to the external call: the error thrown, or "none"
TradeCheck(c, outcome, amount, t) ==
  IF c = NoCid THEN "conditionId is required"
  ELSE IF outcome \notin {"YES", "NO"} THEN "outcome must be YES or NO"
  ELSE IF NotPositive(amount) THEN "amount must be positive"
  ELSE IF TradeClosed(MarketOf(c), t) # "none" THEN TradeClosed(MarketOf(c), t)
  ELSE IF ParseUnitsThrows(amount) THEN "invalid decimal string"
  ELSE "none"

\* await buyTokens(client, params) or await sellTokens(client, params); the
\* trade moves balances and prices, which the model does not hold
CallTrade(fn, external) ==
  /\ \E c \in CidArgs, o \in OutcomeArgs, a \in AmountArgs :
       LET e   == TradeCheck(c, o, a, now)
           res == [fn |-> fn, conditionId |-> c, outcome |-> o, amount |-> a]
       IN IF e # "none"
          THEN out' = res @@ [err |-> e, ext |-> {}]
          ELSE \E e2 \in {"none", "ExternalCallFailure"} :
                 out' = res @@ [err |-> e2, ext |-> {external}]
  /\ UNCHANGED << now, chain, nextCid, recordFile, registryFile, pc, err, image,
                  idx, scanNow, rec, win, crashes, runCalls, overlap, appended,
                  marked, settledRecs, stale, orphans >>
  /\ UNCHANGED life

CallBuyTokens  == CallTrade("buyTokens", "trading.buy")
CallSellTokens == CallTrade("sellTokens", "trading.sell")

\* a redeem that does not look at the market's resolution
RedeemCheck_NoResolvedTest(c) ==
  IF c = NoCid THEN "conditionId is required" ELSE "none"

\* redeemWinnings up to the external call: the error thrown, or "none"
RedeemCheck(c) ==
  IF c = NoCid THEN "conditionId is required"
  ELSE IF ~MarketOf(c).isSettled THEN "Market is not yet settled"
  ELSE "none"

\* await redeemWinnings(client, conditionId)
CallRedeemWinnings ==
  /\ \E c \in CidArgs :
       LET e   == RedeemCheck(c)
           res == [fn |-> "redeemWinnings", conditionId |-> c]
       IN IF e # "none"
          THEN out' = res @@ [err |-> e, ext |-> {}]
          ELSE \E e2 \in {"none", "ExternalCallFailure"} :
                 out' = res @@ [err |-> e2, ext |-> {"redemption.redeem"}]
  /\ UNCHANGED << now, chain, nextCid, recordFile, registryFile, pc, err, image,
                  idx, scanNow, rec, win, crashes, runCalls, overlap, appended,
                  marked, settledRecs, stale, orphans >>
  /\ UNCHANGED life

\* the script functions called one after another by one caller, createMarket
\* with valid parameters
NextScripts ==
  \/ CallCreateMarket(Questions, Durations, {"100"}, {USDC})
  \/ CallGetSettlementStatus
  \/ CallSettleMarket
  \/ CallBuyTokens
  \/ CallSellTokens
  \/ CallRedeemWinnings
  \/ Tick

SpecScripts == Init /\ [][NextScripts]_vars

\* the files of the registry are as they were
FilesUnchanged == recordFile' = recordFile /\ registryFile' = registryFile

\* C14: settleMarket called for a market whose end time is later than now
\* fails, with "Cannot settle yet" when the outcome passed is YES or NO; no
\* external settleMarket call is made, and the chain's market, the record
\* files and the index are as before.
C14_NotDueSettleFails ==
  [][ ( /\ Called("settleMarket")
        /\ out'.conditionId \in Cids
        /\ MarketOf(out'.conditionId).endTime > now )
      => /\ out'.err # "none"
         /\ out'.outcome \in Outcomes => out'.err = "Cannot settle yet"
         /\ out'.ext = {}
         /\ chain' = chain
         /\ FilesUnchanged ]_vars

\* settleMarket was refused for a market that is still trading
C14_Witness ==
  /\ out.fn = "settleMarket"
  /\ out.conditionId \in Cids
  /\ MarketOf(out.conditionId).endTime > now
  /\ out.outcome \in Outcomes
  /\ out.err = "Cannot settle yet"

\* this step is a call of buyTokens or of sellTokens
CalledTrade == Called("buyTokens") \/ Called("sellTokens")

\* C17: buyTokens and sellTokens fail without an external buy/sell call when
\* now >= endTime or the market is settled; the external call goes out only
\* for an unsettled market with now < endTime.
C17_TradeOnlyWhileOpen ==
  [][ (CalledTrade /\ out'.conditionId \in Cids)
      => LET m == MarketOf(out'.conditionId)
         IN /\ (now >= m.endTime \/ m.isSettled)
                 => (out'.err # "none" /\ out'.ext = {})
            /\ out'.ext # {} => (~m.isSettled /\ now < m.endTime) ]_vars

\* a well-formed sell on a settled market has been refused, and a well-formed
\* buy on a market still trading would go out
C17_Witness ==
  /\ out.fn = "sellTokens"
  /\ out.conditionId \in Cids
  /\ MarketOf(out.conditionId).isSettled
  /\ out.outcome \in Outcomes /\ out.amount = "100"
  /\ out.err # "none" /\ out.ext = {}
  /\ \E c \in Cids : chain[c].exists /\ ~chain[c].isSettled /\ now < chain[c].endTime

\* C20: redeemWinnings makes the external redeem call only for a market that
\* is resolved on-chain; for an unresolved market it fails with the
\* not-yet-settled error and makes no redeem call.
C20_RedeemOnlyResolved ==
  [][ (Called("redeemWinnings") /\ out'.conditionId \in Cids)
      => LET m == MarketOf(out'.conditionId)
         IN /\ out'.ext # {} => m.isSettled
            /\ ~m.isSettled
                 => (out'.err = "Market is not yet settled" /\ out'.ext = {})
            /\ chain' = chain ]_vars

\* redeemWinnings was refused for a market past its end time that nobody has
\* settled, while another market is settled
C20_Witness ==
  /\ out.fn = "redeemWinnings"
  /\ out.conditionId \in Cids
  /\ ~MarketOf(out.conditionId).isSettled
  /\ now >= MarketOf(out.conditionId).endTime
  /\ out.err = "Market is not yet settled"
  /\ \E c \in Cids : chain[c].isSettled

\* =================================================== scripts run standalone
ScriptNames == {"create-market", "trade", "settle", "redeem"}

StandaloneDurationHours == 168    \* durationHours of create-market.ts run directly

\* `npx ts-node <script>.ts [conditionId]`: the `require.main === module` block.
\* initClient throws without PRIVATE_KEY; trade, settle and redeem print their
\* usage and process.exit(0) without a conditionId; whatever is thrown or
\* rejected after that is printed by the catch, which ends in process.exit(1);
\* a run that prints its JSON result ends with status 0.
StandaloneRun ==
  /\ \E script \in ScriptNames, hasKey \in BOOLEAN, c \in CidArgs, ok \in BOOLEAN :
       LET res == [fn |-> "standalone", script |-> script, hasKey |-> hasKey,
                   conditionId |-> c]
           Ends(printed, e, status, calls) ==
             out' = res @@ [printed |-> printed, err |-> e, exit |-> status,
                            json |-> (printed = "JSON"), ext |-> calls]
       IN /\ script = "create-market" => c = NoCid
          /\ IF ~hasKey
             THEN /\ Ends("Failed", "PRIVATE_KEY environment variable is required", 1, {})
                  /\ UNCHANGED << chain, nextCid >>
             ELSE IF script = "create-market"
             THEN LET chk == CreateMarketCheck("Q", StandaloneDurationHours, "100", USDC)
                  IN IF chk.err # "none"
                     THEN /\ Ends("Failed", chk.err, 1, {})
                          /\ UNCHANGED << chain, nextCid >>
                     ELSE IF ok /\ nextCid <= MaxMarkets
                     THEN /\ chain' = [chain EXCEPT ![nextCid] =
                                         [exists |-> TRUE,
                                          endTime |-> now + StandaloneDurationHours * HourSecs,
                                          isSettled |-> FALSE, winner |-> "null"]]
                          /\ nextCid' = nextCid + 1
                          /\ Ends("JSON", "none", 0, {"market.createMarket"})
                     ELSE /\ Ends("Failed", "ExternalCallFailure", 1, {"market.createMarket"})
                          /\ UNCHANGED << chain, nextCid >>
             ELSE IF c = NoCid
             THEN /\ Ends("Usage", "none", 0, {})
                  /\ UNCHANGED << chain, nextCid >>
             ELSE IF script = "redeem"
             THEN /\ IF RedeemCheck(c) # "none"
                     THEN Ends("Failed", RedeemCheck(c), 1, {})
                     ELSE IF ok
                     THEN Ends("JSON", "none", 0, {"redemption.redeem"})
                     ELSE Ends("Failed", "ExternalCallFailure", 1, {"redemption.redeem"})
                  /\ UNCHANGED << chain, nextCid >>
             ELSE \* trade: getMarketInfo; settle: getSettlementStatus (reads only)
                  /\ IF ok
                     THEN Ends("JSON", "none", 0, {})
                     ELSE Ends("Failed", "ExternalCallFailure", 1, {})
                  /\ UNCHANGED << chain, nextCid >>
  /\ UNCHANGED << now, recordFile, registryFile, pc, err, image, idx, scanNow,
                  rec, win, crashes, runCalls, overlap, appended, marked,
                  settledRecs, stale, orphans >>
  /\ UNCHANGED life

\* the scripts run from the command line, next to library calls that create
\* and resolve the markets they are run for
NextStandalone ==
  \/ StandaloneRun
  \/ CallCreateMarket(Questions, Durations, {"100"}, {USDC})
  \/ CallSettleMarket
  \/ Tick

SpecStandalone == Init /\ [][NextStandalone]_vars

\* C18: a standalone run that does not print its JSON result prints the error
\* and exits with a non-zero status.
C18_NoResultExitsNonZero ==
  [][ (Called("standalone") /\ ~out'.json)
      => (out'.printed = "Failed" /\ out'.exit # 0) ]_vars

\* C24: the status getSettlementStatus returns never has canSettle and
\* isSettled both true, has a winner exactly when isSettled is true, and has
\* the two time-left fields exactly when the market is unsettled and
\* now < endTime; and when settleMarket fails with "Cannot settle yet" the
\* time-left values of its message are defined.
C24_StatusFieldsConsistent ==
  [][ /\ (Called("getSettlementStatus") /\ out'.err = "none")
           => LET st == out'.status
                  m  == MarketOf(out'.conditionId)
              IN /\ ~(st.canSettle /\ st.isSettled)
                 /\ st.isSettled = m.isSettled
                 /\ (st.winner # "undefined") <=> st.isSettled
                 /\ (st.timeLeftHours # -1) <=> (~m.isSettled /\ now < m.endTime)
                 /\ (st.timeLeftMinutes # -1) <=> (~m.isSettled /\ now < m.endTime)
      /\ (Called("settleMarket") /\ out'.err = "Cannot settle yet")
           => (out'.timeLeftHours >= 0 /\ out'.timeLeftMinutes >= 0) ]_vars

\* getSettlementStatus has reported a settled market with its winner while
\* another market is still trading
C24_Witness ==
  /\ out.fn = "getSettlementStatus" /\ out.err = "none"
  /\ out.status.isSettled /\ out.status.winner \in Outcomes
  /\ \E c \in Cids : chain[c].exists /\ ~chain[c].isSettled /\ now < chain[c].endTime

\* the pre-flight of buyTokens / sellTokens lets a trade on market c through
Tradeable(c) == TradeClosed(MarketOf(c), now) = "none"

\* the pre-flight of settleMarket lets a settlement of market c through
Settleable(c) == \E o \in Outcomes : SettleCheck(c, o, now) = "none"

\* C23: for every market the chain knows and the current now, the pre-flight
\* of buyTokens/sellTokens and the pre-flight of settleMarket do not both
\* pass; the first passes only while now < endTime, the second only once
\* now >= endTime with the market unsettled.
C23_TradeAndSettleExclusive ==
  \A c \in Cids :
    chain[c].exists
      => /\ ~(Tradeable(c) /\ Settleable(c))
         /\ Tradeable(c) => now < chain[c].endTime
         /\ Settleable(c) => (now >= chain[c].endTime /\ ~chain[c].isSettled)

\* at the very second a market ends a buy has been refused, and settleMarket
\* would go through; another market is still open for trading
C23_Witness ==
  /\ out.fn = "buyTokens"
  /\ out.conditionId \in Cids
  /\ now = MarketOf(out.conditionId).endTime
  /\ out.err = "Market trading period has ended"
  /\ Settleable(out.conditionId)
  /\ \E c \in Cids : chain[c].exists /\ Tradeable(c)

\* =================================================== scripts/lifecycle.ts
\* a step of main() throws: main().catch prints it and process.exit(1); nothing
\* after the step is executed
LifeFails(step) ==
  life' = [life EXCEPT !.at = "exited", !.steps = Append(@, step), !.exit = 1]

\* a step of main() returns and main() goes on at `next`
LifeReturns(step, next) ==
  life' = [life EXCEPT !.at = next, !.steps = Append(@, step),
                       !.returned = Append(@, step)]

\* what a step of main() leaves alone besides the chain and the clock
LifeFrame ==
  UNCHANGED << recordFile, registryFile, pc, err, image, idx, scanNow, rec, win,
               crashes, runCalls, overlap, appended, marked, settledRecs, stale,
               orphans, out >>

\* a main() that takes the settle branch whatever the status says
AfterStatus_SettleAlways(canSettle) == "settle"

\* `if (status.canSettle) { settle; redeem } else { skipped }`   (lifecycle.ts 88-109)
AfterStatus(canSettle) == IF canSettle THEN "settle" ELSE "summary"

\* `npx ts-node scripts/lifecycle.ts` is started: const client = initClient()
LifeInitClient ==
  /\ life.at \in {"off", "exited"}
  /\ nextCid <= MaxMarkets
  /\ \E hasKey \in BOOLEAN :
       life' = IF hasKey
               THEN [NoLife EXCEPT !.at = "create", !.steps = << "initClient" >>,
                                   !.returned = << "initClient" >>]
               ELSE [NoLife EXCEPT !.at = "exited", !.steps = << "initClient" >>,
                                   !.exit = 1]
  /\ UNCHANGED << now, chain, nextCid >>
  /\ LifeFrame

\* STEP 1: market = await createMarket(client, {..., durationHours: 168, ...})
LifeCreateMarket ==
  /\ life.at = "create"
  /\ LET chk == CreateMarketCheck("Q", StandaloneDurationHours, "100", USDC)
     IN IF chk.err # "none"
        THEN LifeFails("createMarket") /\ UNCHANGED << chain, nextCid >>
        ELSE \/ /\ nextCid <= MaxMarkets
                /\ chain' = [chain EXCEPT ![nextCid] =
                               [exists |-> TRUE,
                                endTime |-> now + StandaloneDurationHours * HourSecs,
                                isSettled |-> FALSE, winner |-> "null"]]
                /\ nextCid' = nextCid + 1
                /\ life' = [life EXCEPT !.at = "info", !.conditionId = nextCid,
                                        !.steps = Append(@, "createMarket"),
                                        !.returned = Append(@, "createMarket")]
             \/ LifeFails("createMarket") /\ UNCHANGED << chain, nextCid >>
  /\ UNCHANGED now
  /\ LifeFrame

\* STEP 2: info = await getMarketInfo(client, market.conditionId)
LifeGetMarketInfo ==
  /\ life.at = "info"
  /\ \/ LifeReturns("getMarketInfo", "buy")
     \/ LifeFails("getMarketInfo")
  /\ UNCHANGED << now, chain, nextCid >>
  /\ LifeFrame

\* STEP 3: await buyTokens(client, { conditionId, outcome: "YES", amount: "10" })
LifeBuyTokens ==
  /\ life.at = "buy"
  /\ IF TradeCheck(life.conditionId, "YES", "10", now) # "none"
     THEN LifeFails("buyTokens")
     ELSE \/ LifeReturns("buyTokens", "sell")
          \/ LifeFails("buyTokens")
  /\ UNCHANGED << now, chain, nextCid >>
  /\ LifeFrame

\* STEP 4: await sellTokens(client, { conditionId, outcome: "YES", amount: "2" })
LifeSellTokens ==
  /\ life.at = "sell"
  /\ IF TradeCheck(life.conditionId, "YES", "2", now) # "none"
     THEN LifeFails("sellTokens")
     ELSE \/ LifeReturns("sellTokens", "status")
          \/ LifeFails("sellTokens")
  /\ UNCHANGED << now, chain, nextCid >>
  /\ LifeFrame

\* STEP 5: status = await getSettlementStatus(client, market.conditionId), and
\* the branch on status.canSettle
LifeGetSettlementStatus ==
  /\ life.at = "status"
  /\ \/ LET st == SettlementStatus(MarketOf(life.conditionId), now)
        IN life' = [life EXCEPT !.at = AfterStatus(st.canSettle),
                                !.canSettle = st.canSettle,
                                !.steps = Append(@, "getSettlementStatus"),
                                !.returned = Append(@, "getSettlementStatus")]
     \/ LifeFails("getSettlementStatus")
  /\ UNCHANGED << now, chain, nextCid >>
  /\ LifeFrame

\* STEP 6: await settleMarket(client, { conditionId, outcome: "YES" })
LifeSettleMarket ==
  /\ life.at = "settle"
  /\ IF SettleCheck(life.conditionId, "YES", now) # "none"
     THEN LifeFails("settleMarket") /\ UNCHANGED chain
     ELSE \/ /\ chain' = [chain EXCEPT ![life.conditionId] =
                            [@ EXCEPT !.isSettled = TRUE, !.winner = "YES"]]
             /\ LifeReturns("settleMarket", "redeem")
          \/ LifeFails("settleMarket") /\ UNCHANGED chain
  /\ UNCHANGED << now, nextCid >>
  /\ LifeFrame

\* STEP 7: await redeemWinnings(client, market.conditionId)
LifeRedeemWinnings ==
  /\ life.at = "redeem"
  /\ IF RedeemCheck(life.conditionId) # "none"
     THEN LifeFails("redeemWinnings")
     ELSE \/ LifeReturns("redeemWinnings", "summary")
          \/ LifeFails("redeemWinnings")
  /\ UNCHANGED << now, chain, nextCid >>
  /\ LifeFrame

\* the summary is printed and main() returns: the process ends with status 0
LifeSummary ==
  /\ life.at = "summary"
  /\ life' = [life EXCEPT !.at = "exited", !.exit = 0]
  /\ UNCHANGED << now, chain, nextCid >>
  /\ LifeFrame

\* the trading period of the demo's market goes by
LifeWait ==
  /\ now < MaxTicks * StandaloneDurationHours * HourSecs
  /\ now' = now + StandaloneDurationHours * HourSecs
  /\ UNCHANGED << chain, nextCid, life >>
  /\ LifeFrame

NextLife ==
  \/ LifeInitClient
  \/ LifeCreateMarket
  \/ LifeGetMarketInfo
  \/ LifeBuyTokens
  \/ LifeSellTokens
  \/ LifeGetSettlementStatus
  \/ LifeSettleMarket
  \/ LifeRedeemWinnings
  \/ LifeSummary
  \/ LifeWait

SpecLife == Init /\ [][NextLife]_vars

\* the step is among those main() has called / among those that have returned
LifeCalled(step) == \E i \in 1..Len(life.steps) : life.steps[i] = step
LifeReturned(step) == \E i \in 1..Len(life.returned) : life.returned[i] = step

\* C22: in the lifecycle demo settleMarket is called only when
\* getSettlementStatus has reported canSettle, redeemWinnings is called only
\* after settleMarket has returned, and a step that fails is the last step
\* called: the run has ended with exit status 1; a run that ends with status 0
\* has had every step it called return.
C22_LifecycleOrder ==
  /\ LifeCalled("settleMarket")
       => (LifeReturned("getSettlementStatus") /\ life.canSettle)
  /\ LifeCalled("redeemWinnings") => LifeReturned("settleMarket")
  /\ \/ life.steps = life.returned /\ life.exit \in {-1, 0}
     \/ /\ Len(life.steps) = Len(life.returned) + 1
        /\ SubSeq(life.steps, 1, Len(life.returned)) = life.returned
        /\ life.at = "exited" /\ life.exit = 1

\* the demo's market was settled but the redeem call failed: the run has ended
\* with status 1 at redeemWinnings
C22_Witness ==
  /\ life.at = "exited" /\ life.exit = 1
  /\ LifeReturned("settleMarket")
  /\ LifeCalled("redeemWinnings") /\ ~LifeReturned("redeemWinnings")
  /\ chain[life.conditionId].isSettled

TypeOK ==
  /\ now \in 0..(MaxTicks * HourSecs)
  /\ pc \in [Procs -> {"idle"} \cup CreatePCs \cup ScanPCs]
  /\ registryFile.state \in {"missing", "partial", "ok"}
  /\ \A c \in Cids : recordFile[c].state \in {"missing", "partial", "ok"}
====
